---- MODULE Spec2Model ----
(***************************************************************************)
(* Timekeeper web application (src/script.js): the four localStorage       *)
(* documents (accounts, paySettings, logs, currentPunch), the session      *)
(* variable currentUser, and the click handlers that change them.          *)
(*                                                                         *)
(* Representation.                                                         *)
(*   - A string that the code parses or trims (a time "HH:MM", a username, *)
(*     the pay-period input, the rate input) is a sequence of one-character*)
(*     strings, and the parsing/formatting functions work on characters.   *)
(*   - A date string "YYYY-MM-DD" (only ever produced by                   *)
(*     toISOString().slice(0, 10) and compared for equality or order) is   *)
(*     the triple <<y, m, d>> of its fixed-width fields.                   *)
(*   - A Date object is its instant: minutes since 2023-01-01T00:00Z.      *)
(*     The local fields (getDate, toTimeString, new Date(y, m, d)) use the *)
(*     browser's UTC offset tz (minutes east of UTC); toISOString is UTC.  *)
(*   - A number that may be NaN is <<>> (NaN) or <<n>>.                    *)
(***************************************************************************)
EXTENDS Integers, Sequences, FiniteSets, TLC

VARIABLES
    accounts,      \* localStorage 'accounts': sequence of account records
    paySettings,   \* localStorage 'paySettings': [startDays |-> sequence]
    logs,          \* localStorage 'logs': sequence of log entries
    currentPunch,  \* localStorage 'currentPunch': username -> [date, punchIn]
    raw,           \* per key: "ok", "missing" or "corrupt" (what getItem/JSON.parse see)
    currentUser,   \* the closure variable currentUser (NoUser = null)
    view,          \* which section is shown: "login", "employee", "admin"
    employeeTable, \* the data-index values of the rendered delete buttons
    now,           \* the system clock: the instant new Date() returns
    tz,            \* the browser's UTC offset, minutes east of UTC
    last,          \* the last handler that ran and its outcome
    fnArgs,        \* arguments of a pure-function call (function specifications)
    fnOut          \* its result

docs == <<accounts, paySettings, logs, currentPunch, raw>>
vars == <<accounts, paySettings, logs, currentPunch, raw, currentUser, view,
          employeeTable, now, tz, last, fnArgs, fnOut>>

----------------------------------------------------------------------------
(* Bounds *)

MaxLogs == 2          \* punch-outs are cut off once the log list is this long
NumInstants == 3      \* the clock runs over this many instants
MaxInputParts == 2    \* most comma-separated parts in a pay-period input
NumFnMonths == 6      \* months covered by the getPayPeriodStart inputs
MaxSummaryLogs == 3   \* longest log list given to generateSummary on its own
MaxLoads == 2         \* page loads followed from one stored state

----------------------------------------------------------------------------
(* Characters and numbers *)

Digits == <<"0", "1", "2", "3", "4", "5", "6", "7", "8", "9">>

IsDigit(c) == \E i \in 1..10 : Digits[i] = c

DigitVal(c) == (CHOOSE i \in 1..10 : Digits[i] = c) - 1

Min(a, b) == IF a < b THEN a ELSE b

Max(a, b) == IF a > b THEN a ELSE b

NaN == <<>>

Num(n) == <<n>>

isNaN(x) == x = NaN

IsSpace(c) == c = " "

\* String.prototype.trim
RECURSIVE TrimLeft(_)
TrimLeft(s) ==
    IF s # <<>> /\ IsSpace(Head(s)) THEN TrimLeft(Tail(s)) ELSE s

RECURSIVE TrimRight(_)
TrimRight(s) ==
    IF s # <<>> /\ IsSpace(s[Len(s)]) THEN TrimRight(SubSeq(s, 1, Len(s) - 1)) ELSE s

trim(s) == TrimRight(TrimLeft(s))

\* the longest prefix of s made of digits
RECURSIVE DigitPrefix(_)
DigitPrefix(s) ==
    IF s # <<>> /\ IsDigit(Head(s)) THEN <<Head(s)>> \o DigitPrefix(Tail(s)) ELSE <<>>

\* the value of a non-empty digit string
RECURSIVE DigitsValue(_)
DigitsValue(s) ==
    IF s = <<>> THEN 0 ELSE DigitsValue(SubSeq(s, 1, Len(s) - 1)) * 10 + DigitVal(s[Len(s)])

\* parseInt(s): leading white space skipped, optional sign, leading digits
parseInt(s) ==
    LET t == TrimLeft(s)
        neg == t # <<>> /\ Head(t) = "-"
        u == IF t # <<>> /\ Head(t) \in {"-", "+"} THEN Tail(t) ELSE t
        ds == DigitPrefix(u)
    IN  IF ds = <<>> THEN NaN
        ELSE Num(IF neg THEN 0 - DigitsValue(ds) ELSE DigitsValue(ds))

\* parseFloat(s) for decimal notation without exponent, in hundredths:
\* leading white space skipped, optional sign, digits, optional fraction
parseFloat(s) ==
    LET t == TrimLeft(s)
        neg == t # <<>> /\ Head(t) = "-"
        u == IF t # <<>> /\ Head(t) \in {"-", "+"} THEN Tail(t) ELSE t
        ip == DigitPrefix(u)
        rest == SubSeq(u, Len(ip) + 1, Len(u))
        fp == IF rest # <<>> /\ Head(rest) = "." THEN DigitPrefix(Tail(rest)) ELSE <<>>
        f2 == SubSeq(fp \o <<"0", "0">>, 1, 2)
        v == DigitsValue(ip) * 100 + DigitsValue(f2)
    IN  IF ip = <<>> /\ fp = <<>> THEN NaN
        ELSE Num(IF neg THEN 0 - v ELSE v)

\* Number(s) for the fields of a time string: a digit string or NaN
Number(s) ==
    LET t == trim(s)
    IN  IF t = <<>> THEN Num(0)
        ELSE IF \A i \in 1..Len(t) : IsDigit(t[i]) THEN Num(DigitsValue(t))
        ELSE NaN

\* String(n) for an integer n >= 0
RECURSIVE String(_)
String(n) ==
    IF n < 10 THEN <<Digits[n + 1]>> ELSE String(n \div 10) \o <<Digits[(n % 10) + 1]>>

\* s.padStart(2, '0')
padStart2(s) == IF Len(s) >= 2 THEN s ELSE IF Len(s) = 1 THEN <<"0">> \o s ELSE <<"0", "0">>

\* s.split(sep) for a one-character separator
RECURSIVE split(_, _)
split(s, sep) ==
    IF \A i \in 1..Len(s) : s[i] # sep THEN <<s>>
    ELSE LET k == CHOOSE i \in 1..Len(s) : s[i] = sep /\ \A j \in 1..(i - 1) : s[j] # sep
         IN  <<SubSeq(s, 1, k - 1)>> \o split(SubSeq(s, k + 1, Len(s)), sep)

\* insertion of x into an ascending sequence, after the elements equal to it
RECURSIVE InsertAsc(_, _)
InsertAsc(s, x) ==
    IF s = <<>> THEN <<x>>
    ELSE IF x < Head(s) THEN <<x>> \o s
    ELSE <<Head(s)>> \o InsertAsc(Tail(s), x)

\* arr.sort((a, b) => a - b): a stable ascending sort of numbers
RECURSIVE sortNumeric(_)
sortNumeric(s) ==
    IF s = <<>> THEN <<>> ELSE InsertAsc(sortNumeric(SubSeq(s, 1, Len(s) - 1)), s[Len(s)])

----------------------------------------------------------------------------
(* Time helpers, src/script.js 54-63 *)

\* timeToMinutes(timeStr): split(':').map(Number), h * 60 + m
timeToMinutes(timeStr) ==
    LET parts == split(timeStr, ":")
        h == Number(parts[1])
        m == IF Len(parts) >= 2 THEN Number(parts[2]) ELSE NaN
    IN  IF isNaN(h) \/ isNaN(m) THEN NaN ELSE Num(h[1] * 60 + m[1])

\* minutesToTime without the padStart of line 62
minutesToTime_noPad(mins) ==
    LET h == mins \div 60
        m == mins % 60
    IN  String(h) \o <<":">> \o String(m)

\* minutesToTime(mins) for mins >= 0
minutesToTime(mins) ==
    LET h == mins \div 60
        m == mins % 60
    IN  padStart2(String(h)) \o <<":">> \o padStart2(String(m))

----------------------------------------------------------------------------
(* The calendar and the Date object *)

EpochYear == 2023

IsLeap(y) == (y % 4 = 0 /\ y % 100 # 0) \/ y % 400 = 0

DaysInYear(y) == IF IsLeap(y) THEN 366 ELSE 365

\* m is a month number 1..12
DaysInMonth(y, m) ==
    IF m = 2 THEN (IF IsLeap(y) THEN 29 ELSE 28)
    ELSE IF m \in {4, 6, 9, 11} THEN 30 ELSE 31

RECURSIVE DaysBeforeYear(_)
DaysBeforeYear(y) ==
    IF y <= EpochYear THEN 0 ELSE DaysBeforeYear(y - 1) + DaysInYear(y - 1)

RECURSIVE DaysBeforeMonth(_, _)
DaysBeforeMonth(y, m) ==
    IF m <= 1 THEN 0 ELSE DaysBeforeMonth(y, m - 1) + DaysInMonth(y, m - 1)

\* day number (days since 2023-01-01) of the civil date y-m-d; d may lie
\* outside the month (day 0 is the last day of the month before)
DayNum(y, m, d) == DaysBeforeYear(y) + DaysBeforeMonth(y, m) + d - 1

RECURSIVE YearOfDay(_, _)
YearOfDay(n, y) == IF n < DaysInYear(y) THEN <<y, n>> ELSE YearOfDay(n - DaysInYear(y), y + 1)

RECURSIVE MonthOfDay(_, _, _)
MonthOfDay(n, y, m) ==
    IF n < DaysInMonth(y, m) THEN <<m, n>> ELSE MonthOfDay(n - DaysInMonth(y, m), y, m + 1)

\* the civil date <<y, m, d>> of day number n >= 0
CivilOf(n) ==
    LET yn == YearOfDay(n, EpochYear)
        mn == MonthOfDay(yn[2], yn[1], 1)
    IN  <<yn[1], mn[1], mn[2] + 1>>

\* floor division by 1440 for the instants of the model (>= -1440)
DayOfInstant(t) == (t + 1440) \div 1440 - 1

\* the local calendar fields of the Date t in a browser at offset tzo
LocalCivil(t, tzo) == CivilOf(DayOfInstant(t + tzo))

getFullYear(t, tzo) == LocalCivil(t, tzo)[1]

\* getMonth is zero-based
getMonth(t, tzo) == LocalCivil(t, tzo)[2] - 1

getDate(t, tzo) == LocalCivil(t, tzo)[3]

\* new Date(year, monthIndex, day): local midnight of that day; monthIndex
\* may be 12 and day may be 0, and the Date constructor carries them over
newDate(year, monthIndex, day, tzo) ==
    LET y == year + (monthIndex \div 12)
        m == (monthIndex % 12) + 1
    IN  DayNum(y, m, day) * 1440 - tzo

\* dateObj.toISOString().slice(0, 10): the UTC date
toISODate(t) == CivilOf(DayOfInstant(t))

\* dateObj.toTimeString().slice(0, 5): the local time of day "HH:MM"
toTimeHHMM(t, tzo) ==
    LET m == (t + tzo + 1440) % 1440
    IN  padStart2(String(m \div 60)) \o <<":">> \o padStart2(String(m % 60))

----------------------------------------------------------------------------
(* Storage, src/script.js 12-26 *)

\* Storage.get(key, defaultValue): the default when the item is missing or
\* does not parse, the parsed value otherwise
StorageGet(key, value, defaultValue) ==
    IF raw[key] = "ok" THEN value ELSE defaultValue

DefaultSettings == [startDays |-> <<1, 15>>]

EmptyMap == [u \in {} |-> 0]

----------------------------------------------------------------------------
(* Plain objects used as maps, src/script.js 184-189 and 385-386 *)

\* the key "__proto__": reading it on a plain object gives the prototype, and
\* assigning a number or a string to it is ignored
ProtoKey == <<"_", "_", "p", "r", "o", "t", "o", "_", "_">>

ConstructorName == <<"c", "o", "n", "s", "t", "r", "u", "c", "t", "o", "r">>

\* the names a plain object ({} of lines 184 and 186) inherits from
\* Object.prototype: obj[name] is a function or an object, and truthy, before
\* any assignment to it
ObjectPrototypeKeys ==
    {<<"c", "o", "n", "s", "t", "r", "u", "c", "t", "o", "r">>,
     <<"t", "o", "S", "t", "r", "i", "n", "g">>,
     <<"t", "o", "L", "o", "c", "a", "l", "e", "S", "t", "r", "i", "n", "g">>,
     <<"v", "a", "l", "u", "e", "O", "f">>,
     <<"h", "a", "s", "O", "w", "n", "P", "r", "o", "p", "e", "r", "t", "y">>,
     <<"i", "s", "P", "r", "o", "t", "o", "t", "y", "p", "e", "O", "f">>,
     <<"p", "r", "o", "p", "e", "r", "t", "y", "I", "s", "E", "n", "u", "m", "e", "r", "a", "b", "l", "e">>,
     <<"_", "_", "p", "r", "o", "t", "o", "_", "_">>,
     <<"_", "_", "d", "e", "f", "i", "n", "e", "G", "e", "t", "t", "e", "r", "_", "_">>,
     <<"_", "_", "d", "e", "f", "i", "n", "e", "S", "e", "t", "t", "e", "r", "_", "_">>,
     <<"_", "_", "l", "o", "o", "k", "u", "p", "G", "e", "t", "t", "e", "r", "_", "_">>,
     <<"_", "_", "l", "o", "o", "k", "u", "p", "S", "e", "t", "t", "e", "r", "_", "_">>}

\* a plain object used as a map is the sequence of its own properties
\* [key, val] in the order they were created; val is <<n>> for the number n
\* and NaN for a string that does not read as a number
hasOwn(obj, key) == \E i \in 1..Len(obj) : obj[i].key = key

ownValue(obj, key) == obj[CHOOSE i \in 1..Len(obj) : obj[i].key = key].val

\* obj[key] = val
setOwn(obj, key, val) ==
    IF hasOwn(obj, key)
    THEN [i \in 1..Len(obj) |-> IF obj[i].key = key THEN [key |-> key, val |-> val] ELSE obj[i]]
    ELSE Append(obj, [key |-> key, val |-> val])

----------------------------------------------------------------------------
(* Pay period and worked minutes, src/script.js 66-108 *)

\* the last element of the ascending startDays that is <= day, or 0 (null):
\* the loop of lines 72-77
RECURSIVE chosenDayLoop(_, _, _, _)
chosenDayLoop(startDays, day, i, chosenDay) ==
    IF i > Len(startDays) THEN chosenDay
    ELSE chosenDayLoop(startDays, day, i + 1,
                       IF day >= startDays[i] THEN startDays[i] ELSE chosenDay)

\* getPayPeriodStart(dateObj), with the stored settings and the browser's
\* offset as explicit arguments
getPayPeriodStart(dateObj, settings, tzo) ==
    LET startDays == sortNumeric(settings.startDays)
        day == getDate(dateObj, tzo)
        month == getMonth(dateObj, tzo)
        year == getFullYear(dateObj, tzo)
        chosenDay == chosenDayLoop(startDays, day, 1, 0)
    IN  IF chosenDay = 0
        THEN LET prevMonth == (month - 1 + 12) % 12
                 prevYear == IF month = 0 THEN year - 1 ELSE year
                 lastDay == startDays[Len(startDays)]
                 daysInPrevMonth == getDate(newDate(prevYear, prevMonth + 1, 0, tzo), tzo)
                 startDate == newDate(prevYear, prevMonth, Min(lastDay, daysInPrevMonth), tzo)
             IN  toISODate(startDate)
        ELSE LET daysInMonth == getDate(newDate(year, month + 1, 0, tzo), tzo)
                 actualDay == Min(chosenDay, daysInMonth)
                 startDate == newDate(year, month, actualDay, tzo)
             IN  toISODate(startDate)

\* computeWorkedMinutes without the floor at zero of line 106
computeWorkedMinutes_noFloor(scheduledStart, scheduledEnd, actualIn, actualOut) ==
    LET ss == timeToMinutes(scheduledStart)[1]
        se == timeToMinutes(scheduledEnd)[1]
        ai == timeToMinutes(actualIn)[1]
        ao == timeToMinutes(actualOut)[1]
        deduction == IF ai > ss THEN ai - ss ELSE 0
        effectiveEnd == Min(ao, se)
    IN  effectiveEnd - ss - deduction

\* computeWorkedMinutes without the test ai > ss of line 101: an early
\* punch-in is credited
computeWorkedMinutes_earlyBonus(scheduledStart, scheduledEnd, actualIn, actualOut) ==
    LET ss == timeToMinutes(scheduledStart)[1]
        se == timeToMinutes(scheduledEnd)[1]
        ai == timeToMinutes(actualIn)[1]
        ao == timeToMinutes(actualOut)[1]
        deduction == ai - ss
        effectiveEnd == Min(ao, se)
        minutes == effectiveEnd - ss - deduction
    IN  IF minutes < 0 THEN 0 ELSE minutes

\* computeWorkedMinutes(scheduledStart, scheduledEnd, actualIn, actualOut)
\* for well-formed time strings
computeWorkedMinutes(scheduledStart, scheduledEnd, actualIn, actualOut) ==
    LET ss == timeToMinutes(scheduledStart)[1]
        se == timeToMinutes(scheduledEnd)[1]
        ai == timeToMinutes(actualIn)[1]
        ao == timeToMinutes(actualOut)[1]
        deduction == IF ai > ss THEN ai - ss ELSE 0
        effectiveEnd == Min(ao, se)
        minutes == effectiveEnd - ss - deduction
    IN  IF minutes < 0 THEN 0 ELSE minutes

----------------------------------------------------------------------------
(* Inputs: what the user types and when *)

AdminName == <<"a", "d", "m", "i", "n">>

NoUser == [username |-> <<>>, role |-> "none"]

\* values of the username fields (login and new employee), before trim()
UsernameInputs == {<<>>, AdminName, <<"b">>, <<" ", "b", " ">>, <<"c">>}

T0900 == <<"0", "9", ":", "0", "0">>

T1700 == <<"1", "7", ":", "0", "0">>

Rate20 == <<"2", "0">>

\* values of the new-employee form <<username, password, rate, shiftStart,
\* shiftEnd>>: every username with the other fields filled in, and each
\* other field left empty in turn (an <input type="time"> is empty or HH:MM)
AddEmployeeInputs ==
    {<<u, "pw", Rate20, T0900, T1700>> : u \in UsernameInputs}
    \cup {<<<<"b">>, "", Rate20, T0900, T1700>>,
          <<<<"b">>, "pw", <<"x">>, T0900, T1700>>,
          <<<<"b">>, "pw", Rate20, <<>>, T1700>>,
          <<<<"b">>, "pw", Rate20, T0900, <<>>>>}

\* values of the login form <<username, password, role>>
LoginInputs ==
    {<<u, "pw", "employee">> : u \in UsernameInputs}
    \cup {<<AdminName, "admin", "admin">>, <<AdminName, "admin", "employee">>,
          <<AdminName, "pw", "admin">>, <<<<"b">>, "pw", "admin">>,
          <<<<"b">>, "admin", "employee">>}

\* the comma-separated parts a pay-period input is made of
DayTokens ==
    {<<"1">>, <<" ", "1", "5", "x">>, <<"3", "1">>, <<"4", "0">>, <<"0">>, <<"x">>, <<>>}

RECURSIVE join(_, _)
join(parts, sep) ==
    IF Len(parts) = 0 THEN <<>>
    ELSE IF Len(parts) = 1 THEN parts[1]
    ELSE parts[1] \o <<sep>> \o join(Tail(parts), sep)

\* values of the pay-period field: every input of at most MaxInputParts parts
PayPeriodInputs ==
    {join(ps, ",") : ps \in UNION {[1..n -> DayTokens] : n \in 0..MaxInputParts}}

\* values of the pay-period field tried between punches: "", "40,x" and
\* " 1 ,15x" (which stands for the days 1 and 15)
FewPayPeriodInputs ==
    {<<>>, <<"4", "0", ",", "x">>, <<" ", "1", " ", ",", "1", "5", "x">>}

\* the clock: two instants a day (09:10Z and 22:30Z) from 2024-02-29 on
FirstDay == DayNum(2024, 2, 29)

ClockMinutes == <<550, 1350>>

TimePoint(i) == (FirstDay + ((i - 1) \div 2)) * 1440 + ClockMinutes[((i - 1) % 2) + 1]

TimePoints == {TimePoint(i) : i \in 1..NumInstants}

\* UTC offsets of the browser: Honolulu, UTC, Helsinki (winter)
TimeZones == {-600, 0, 120}

----------------------------------------------------------------------------
(* initDefaults, src/script.js 29-51 *)

\* initDefaults without the test of line 43: the log list is always reset
initDefaults_resetLogs(d) ==
    LET present(k) == d.raw[k] = "ok"
    IN  [accounts |-> IF present("accounts") THEN d.accounts
                      ELSE <<[username |-> AdminName, password |-> "admin", role |-> "admin"]>>,
         paySettings |-> IF present("paySettings") THEN d.paySettings ELSE DefaultSettings,
         logs |-> <<>>,
         currentPunch |-> IF present("currentPunch") THEN d.currentPunch ELSE EmptyMap,
         raw |-> [k \in DOMAIN d.raw |-> "ok"]]

\* the store after initDefaults() on a store d (a record of the four
\* documents and their raw states)
initDefaults(d) ==
    LET present(k) == d.raw[k] = "ok"
    IN  [accounts |-> IF present("accounts") THEN d.accounts
                      ELSE <<[username |-> AdminName, password |-> "admin", role |-> "admin"]>>,
         paySettings |-> IF present("paySettings") THEN d.paySettings ELSE DefaultSettings,
         logs |-> IF present("logs") THEN d.logs ELSE <<>>,
         currentPunch |-> IF present("currentPunch") THEN d.currentPunch ELSE EmptyMap,
         raw |-> [k \in DOMAIN d.raw |-> "ok"]]

StorageKeys == {"accounts", "paySettings", "logs", "currentPunch"}

\* a browser that has never run the application
EmptyStore ==
    [accounts |-> <<>>, paySettings |-> DefaultSettings, logs |-> <<>>,
     currentPunch |-> EmptyMap, raw |-> [k \in StorageKeys |-> "missing"]]

NoCall == <<>>

\* what the last handler did: its name, whether it went through, the message
\* it showed, the value it was about and the number of log entries it removed
Outcome(op, ok, msg, arg, n) == [op |-> op, ok |-> ok, msg |-> msg, arg |-> arg, n |-> n]

SessionInit ==
    /\ currentUser = NoUser
    /\ view = "login"
    /\ employeeTable = {}
    /\ last = Outcome("load", TRUE, "", <<>>, 0)

\* DOMContentLoaded, src/script.js 275-312, in a browser that has never run
\* the application
AppInit ==
    LET d == initDefaults(EmptyStore)
    IN  /\ accounts = d.accounts
        /\ paySettings = d.paySettings
        /\ logs = d.logs
        /\ currentPunch = d.currentPunch
        /\ raw = d.raw
        /\ SessionInit

Init ==
    /\ AppInit
    /\ now = TimePoint(1)
    /\ tz \in TimeZones
    /\ fnArgs = NoCall
    /\ fnOut = NoCall

----------------------------------------------------------------------------
(* The handlers *)

\* acc.f || dflt
FieldOr(acc, f, dflt) ==
    IF f \in DOMAIN acc /\ acc[f] # <<>> THEN acc[f] ELSE dflt

\* refreshEmployeeTable without the test of line 125: a delete button for
\* every account
refreshEmployeeTable_allRoles(accs) == 1..Len(accs)

\* the indexes (1-based) for which refreshEmployeeTable renders a delete button
refreshEmployeeTable(accs) == {i \in 1..Len(accs) : accs[i].role = "employee"}

\* accounts.find(acc => acc.username === username && acc.password === password
\* && acc.role === role), line 364: the first such account, NoUser (undefined)
\* if there is none
findAccount(accs, username, password, role) ==
    LET match(acc) == acc.username = username /\ acc.password = password /\ acc.role = role
    IN  IF \E i \in 1..Len(accs) : match(accs[i])
        THEN accs[CHOOSE i \in 1..Len(accs) :
                     match(accs[i]) /\ \A j \in 1..(i - 1) : ~match(accs[j])]
        ELSE NoUser

setRaw(key) == raw' = [raw EXCEPT ![key] = "ok"]

\* time passes: the system clock moves to a later instant
Tick ==
    /\ \E t \in TimePoints :
          /\ t > now
          /\ \A t2 \in TimePoints : t2 > now => t2 >= t
          /\ now' = t
    /\ last' = Outcome("tick", TRUE, "", <<>>, 0)
    /\ UNCHANGED <<docs, currentUser, view, employeeTable, tz, fnArgs, fnOut>>

\* loginButton click, src/script.js 359-378 (with loadEmployeeView 315-341
\* and loadAdminView 343-356)
Login(usernameValue, password, role) ==
    /\ view = "login"
    /\ LET username == trim(usernameValue)
           accs == StorageGet("accounts", accounts, <<>>)
           account == findAccount(accs, username, password, role)
       IN  IF account = NoUser
           THEN /\ last' = Outcome("login", FALSE, "Invalid credentials or role.", <<>>, 0)
                /\ UNCHANGED <<currentUser, view, employeeTable>>
           ELSE /\ currentUser' = account
                /\ view' = IF account.role = "employee" THEN "employee" ELSE "admin"
                /\ employeeTable' = IF account.role = "employee" THEN employeeTable
                                    ELSE refreshEmployeeTable(accs)
                /\ last' = Outcome("login", TRUE, "", <<>>, 0)
    /\ UNCHANGED <<docs, now, tz, fnArgs, fnOut>>

\* employeeLogoutBtn click 445-451 and adminLogoutBtn click 454-458
Logout ==
    /\ view \in {"employee", "admin"}
    /\ currentUser' = NoUser
    /\ view' = "login"
    /\ last' = Outcome("logout", TRUE, "", <<>>, 0)
    /\ UNCHANGED <<docs, employeeTable, now, tz, fnArgs, fnOut>>

\* currentPunch[username] = record followed by Storage.set, lines 386-387:
\* the assignment to "__proto__" changes the object's prototype and adds no
\* property, so JSON.stringify writes the map as it was
setPunch(cp, username, record) ==
    IF username = ProtoKey THEN cp
    ELSE [k \in (DOMAIN cp) \cup {username} |-> IF k = username THEN record ELSE cp[k]]

\* punchInBtn click, src/script.js 381-391
PunchIn ==
    /\ view = "employee"
    /\ LET timeStr == toTimeHHMM(now, tz)
           today == toISODate(now)
           cp == StorageGet("currentPunch", currentPunch, EmptyMap)
           u == currentUser.username
       IN  currentPunch' = setPunch(cp, u, [date |-> today, punchIn |-> timeStr])
    /\ setRaw("currentPunch")
    /\ last' = Outcome("punchIn", TRUE, "You punched in at", <<>>, 0)
    /\ UNCHANGED <<accounts, paySettings, logs, currentUser, view, employeeTable, now, tz,
                   fnArgs, fnOut>>

\* the check of line 400 without the comparison of the dates
noPunchRecord_anyDate(cp, u, today) == u \notin DOMAIN cp

\* !punchRecord || punchRecord.date !== today, line 400
noPunchRecord(cp, u, today) == u \notin DOMAIN cp \/ cp[u].date # today

\* punchOutBtn click, src/script.js 394-430
PunchOut ==
    /\ view = "employee"
    /\ LET timeOutStr == toTimeHHMM(now, tz)
           today == toISODate(now)
           cp == StorageGet("currentPunch", currentPunch, EmptyMap)
           u == currentUser.username
       IN  IF noPunchRecord(cp, u, today)
           THEN /\ last' = Outcome("punchOut", FALSE, "No punch in record found for today.",
                                <<>>, 0)
                /\ UNCHANGED docs
           ELSE LET timeInStr == cp[u].punchIn
                    account == currentUser
                    scheduledStart == FieldOr(account, "shiftStart", T0900)
                    scheduledEnd == FieldOr(account, "shiftEnd", T1700)
                    minutesWorked == computeWorkedMinutes(scheduledStart, scheduledEnd,
                                                          timeInStr, timeOutStr)
                    payPeriodStart ==
                        getPayPeriodStart(now, StorageGet("paySettings", paySettings,
                                                          DefaultSettings), tz)
                    ls == StorageGet("logs", logs, <<>>)
                IN  /\ Len(ls) < MaxLogs
                    /\ logs' = Append(ls, [username |-> account.username,
                                           date |-> today,
                                           punchIn |-> timeInStr,
                                           punchOut |-> timeOutStr,
                                           minutesWorked |-> minutesWorked,
                                           payPeriodStart |-> payPeriodStart])
                    /\ currentPunch' = [k \in (DOMAIN cp) \ {u} |-> cp[k]]
                    /\ raw' = [raw EXCEPT !["logs"] = "ok", !["currentPunch"] = "ok"]
                    /\ last' = Outcome("punchOut", TRUE, "You punched out at", <<>>, 0)
                    /\ UNCHANGED <<accounts, paySettings>>
    /\ UNCHANGED <<currentUser, view, employeeTable, now, tz, fnArgs, fnOut>>

\* the check of line 472 looking at employee accounts only
usernameExists_employeesOnly(accs, username) ==
    \E i \in 1..Len(accs) : accs[i].role = "employee" /\ accs[i].username = username

\* accounts.some(acc => acc.username === username), line 472
usernameExists(accs, username) == \E i \in 1..Len(accs) : accs[i].username = username

\* addEmployeeBtn click, src/script.js 461-486
AddEmployee(usernameValue, password, rateValue, shiftStart, shiftEnd) ==
    /\ view = "admin"
    /\ LET username == trim(usernameValue)
           rate == parseFloat(rateValue)
           accs == StorageGet("accounts", accounts, <<>>)
       IN  IF username = <<>> \/ password = "" \/ shiftStart = <<>> \/ shiftEnd = <<>>
              \/ isNaN(rate)
           THEN /\ last' = Outcome("addEmployee", FALSE,
                                   "Please fill in all fields and provide valid values.",
                                   username, 0)
                /\ UNCHANGED <<docs, employeeTable>>
           ELSE IF usernameExists(accs, username)
           THEN /\ last' = Outcome("addEmployee", FALSE, "Username already exists.",
                                   username, 0)
                /\ UNCHANGED <<docs, employeeTable>>
           ELSE /\ accounts' = Append(accs, [username |-> username, password |-> password,
                                             role |-> "employee", hourlyRate |-> rate[1],
                                             shiftStart |-> shiftStart, shiftEnd |-> shiftEnd])
                /\ setRaw("accounts")
                /\ employeeTable' = refreshEmployeeTable(accounts')
                /\ last' = Outcome("addEmployee", TRUE, "", username, 0)
                /\ UNCHANGED <<paySettings, logs, currentPunch>>
    /\ UNCHANGED <<currentUser, view, now, tz, fnArgs, fnOut>>

\* arr.splice(idx, 1) for a 1-based idx within the array
splice1(arr, idx) == SubSeq(arr, 1, idx - 1) \o SubSeq(arr, idx + 1, Len(arr))

\* the filter of line 148 keeping the deleted user's entries instead
logsWithout_inverted(ls, username) ==
    LET keep(log) == log.username = username
    IN  SelectSeq(ls, keep)

\* the delete handler emptying the log list instead of filtering it
logsWithout_all(ls, username) == <<>>

\* logs.filter(log => log.username !== user.username), line 148
logsWithout(ls, username) ==
    LET keep(log) == log.username # username
    IN  SelectSeq(ls, keep)

\* click on a rendered delete button, src/script.js 141-156; idx is the
\* button's data-index (here 1-based), confirmed the answer to confirm()
DeleteEmployee(idx, confirmed) ==
    /\ view = "admin"
    /\ idx \in employeeTable
    /\ LET accs == StorageGet("accounts", accounts, <<>>)
       IN  IF idx <= Len(accs) /\ confirmed
           THEN LET user == accs[idx]
                IN  /\ logs' = logsWithout(StorageGet("logs", logs, <<>>), user.username)
                    /\ accounts' = splice1(accs, idx)
                    /\ raw' = [raw EXCEPT !["logs"] = "ok", !["accounts"] = "ok"]
                    /\ employeeTable' = refreshEmployeeTable(accounts')
                    /\ last' = Outcome("deleteEmployee", TRUE, "", user.username,
                                        Len(StorageGet("logs", logs, <<>>)) - Len(logs'))
                    /\ UNCHANGED <<paySettings, currentPunch>>
           ELSE /\ last' = Outcome("deleteEmployee", FALSE, "", <<>>, 0)
                /\ UNCHANGED <<docs, employeeTable>>
    /\ UNCHANGED <<currentUser, view, now, tz, fnArgs, fnOut>>

\* parts.map(s => parseInt(s.trim()))
RECURSIVE mapParseInt(_)
mapParseInt(parts) ==
    IF parts = <<>> THEN <<>> ELSE <<parseInt(trim(Head(parts)))>> \o mapParseInt(Tail(parts))

\* the numbers of a sequence of numbers-or-NaN that pass the filter of line 491
validDay(n) == ~isNaN(n) /\ n[1] >= 1 /\ n[1] <= 31

RECURSIVE unwrap(_)
unwrap(ns) == IF ns = <<>> THEN <<>> ELSE <<Head(ns)[1]>> \o unwrap(Tail(ns))

\* savePayPeriodBtn click, src/script.js 489-499
SavePayPeriod(inputValue) ==
    /\ view = "admin"
    /\ LET input == trim(inputValue)
           parts == unwrap(SelectSeq(mapParseInt(split(input, ",")), validDay))
       IN  IF Len(parts) = 0
           THEN /\ last' = Outcome("savePayPeriod", FALSE,
                                "Please enter valid day numbers separated by commas.",
                                inputValue, 0)
                /\ UNCHANGED docs
           ELSE /\ paySettings' = [startDays |-> sortNumeric(parts)]
                /\ setRaw("paySettings")
                /\ last' = Outcome("savePayPeriod", TRUE, "Pay period settings saved.",
                                inputValue, 0)
                /\ UNCHANGED <<accounts, logs, currentPunch>>
    /\ UNCHANGED <<currentUser, view, employeeTable, now, tz, fnArgs, fnOut>>

----------------------------------------------------------------------------
(* The summary, src/script.js 111-113 and 180-254 *)

\* a canonical array index ("0", "7", "42"): Object.keys lists such keys
\* first, in ascending numeric order
IsArrayIndex(key) ==
    /\ key # <<>>
    /\ \A i \in 1..Len(key) : IsDigit(key[i])
    /\ (Len(key) = 1 \/ key[1] # "0")

\* x.toFixed(2) for x >= 0, in hundredths; num / den is x in hundredths.
\* The nearest hundredth of the exact value; when the exact value lies
\* half-way, the double computed for it lies on either side, and tieUp says
\* which
toFixed2(num, den, tieUp) ==
    LET q == num \div den
        r == num % den
    IN  IF 2 * r > den \/ (2 * r = den /\ tieUp) THEN q + 1 ELSE q

\* formatHours(mins): (mins / 60).toFixed(2), "NaN" when mins is not a number
\* (mins * 100 / 60 is never half-way between two integers)
formatHours(mins) == IF isNaN(mins) THEN NaN ELSE Num(toFixed2(100 * mins[1], 60, TRUE))

\* lines 188-189 for one log entry: if (!empMap[user]) empMap[user] = 0;
\* empMap[user] += minutes. For an inherited name empMap[user] is truthy and
\* not a number: the sum is a string
addMinutes(empMap, user, minutes) ==
    LET inherited == ~hasOwn(empMap, user) /\ user \in ObjectPrototypeKeys
        falsy == IF hasOwn(empMap, user) THEN ownValue(empMap, user) = Num(0) ELSE ~inherited
        cur == IF falsy THEN Num(0)
               ELSE IF inherited THEN NaN
               ELSE ownValue(empMap, user)
        sum == IF isNaN(cur) THEN NaN ELSE Num(cur[1] + minutes)
    IN  IF user = ProtoKey THEN empMap ELSE setOwn(empMap, user, sum)

\* lines 184-190: summaryMap as the sequence of [key |-> period, val |-> empMap]
RECURSIVE buildSummaryMap(_)
buildSummaryMap(ls) ==
    IF ls = <<>> THEN <<>>
    ELSE LET log == ls[Len(ls)]
             summaryMap == buildSummaryMap(SubSeq(ls, 1, Len(ls) - 1))
             empMap == IF hasOwn(summaryMap, log.payPeriodStart)
                       THEN ownValue(summaryMap, log.payPeriodStart)
                       ELSE <<>>
         IN  setOwn(summaryMap, log.payPeriodStart,
                    addMinutes(empMap, log.username, log.minutesWorked))

\* the order of two date strings YYYY-MM-DD, as sort() compares them
DateBefore(a, b) ==
    \/ a[1] < b[1]
    \/ a[1] = b[1] /\ a[2] < b[2]
    \/ a[1] = b[1] /\ a[2] = b[2] /\ a[3] < b[3]

RECURSIVE InsertDate(_, _)
InsertDate(s, x) ==
    IF s = <<>> THEN <<x>>
    ELSE IF DateBefore(x, Head(s)) THEN <<x>> \o s
    ELSE <<Head(s)>> \o InsertDate(Tail(s), x)

\* line 193 without the sort(): the periods in the order of their creation
sortedPeriods_unsorted(summaryMap) ==
    [i \in 1..Len(summaryMap) |-> summaryMap[i].key]

\* Object.keys(summaryMap).sort(), line 193
RECURSIVE sortedPeriods(_)
sortedPeriods(summaryMap) ==
    IF summaryMap = <<>> THEN <<>>
    ELSE InsertDate(sortedPeriods(SubSeq(summaryMap, 1, Len(summaryMap) - 1)),
                    summaryMap[Len(summaryMap)].key)

RECURSIVE mapString(_)
mapString(ns) == IF ns = <<>> THEN <<>> ELSE <<String(Head(ns))>> \o mapString(Tail(ns))

RECURSIVE mapKey(_)
mapKey(obj) == IF obj = <<>> THEN <<>> ELSE <<Head(obj).key>> \o mapKey(Tail(obj))

\* Object.keys(empMap), line 195: the array indexes in ascending order, then
\* the other names in the order of their creation
objectKeys(empMap) ==
    LET keys == mapKey(empMap)
        isIndex(k) == IsArrayIndex(k)
        notIndex(k) == ~IsArrayIndex(k)
        values == [i \in 1..Len(SelectSeq(keys, isIndex)) |->
                      DigitsValue(SelectSeq(keys, isIndex)[i])]
    IN  mapString(sortNumeric(values)) \o SelectSeq(keys, notIndex)

\* lines 196-200: the row of one user of one period
summaryRow(period, user, totalMins, accs, tieUp) ==
    LET found == \E i \in 1..Len(accs) : accs[i].username = user
        account == accs[CHOOSE i \in 1..Len(accs) :
                           /\ accs[i].username = user
                           /\ \A j \in 1..(i - 1) : accs[j].username # user]
        rate == IF found /\ "hourlyRate" \in DOMAIN account THEN account.hourlyRate ELSE 0
        totalPay == IF isNaN(totalMins) THEN NaN
                    ELSE Num(toFixed2(totalMins[1] * rate, 60, tieUp))
    IN  [period |-> period, user |-> user, totalHours |-> formatHours(totalMins),
         totalPay |-> totalPay]

RECURSIVE rowsOfPeriod(_, _, _, _, _)
rowsOfPeriod(period, empMap, users, accs, tieUp) ==
    IF users = <<>> THEN <<>>
    ELSE <<summaryRow(period, Head(users), ownValue(empMap, Head(users)), accs, tieUp)>>
         \o rowsOfPeriod(period, empMap, Tail(users), accs, tieUp)

RECURSIVE rowsOfPeriods(_, _, _, _)
rowsOfPeriods(periods, summaryMap, accs, tieUp) ==
    IF periods = <<>> THEN <<>>
    ELSE LET empMap == ownValue(summaryMap, Head(periods))
         IN  rowsOfPeriod(Head(periods), empMap, objectKeys(empMap), accs, tieUp)
             \o rowsOfPeriods(Tail(periods), summaryMap, accs, tieUp)

\* generateSummary(), src/script.js 180-204, with the stored log list and
\* account list as arguments; hourlyRate is in hundredths, and so is totalPay
generateSummary(ls, accs, tieUp) ==
    LET summaryMap == buildSummaryMap(ls)
    IN  rowsOfPeriods(sortedPeriods(summaryMap), summaryMap, accs, tieUp)

\* the number of rows of the summary of the stored lists: one row for each
\* total of each period, whichever way a half-way pay is rounded
summaryRowCount ==
    Len(generateSummary(StorageGet("logs", logs, <<>>),
                        StorageGet("accounts", accounts, <<>>), TRUE))

\* generateSummaryBtn click, src/script.js 502-504 (refreshSummaryTable
\* 207-230): the rows are rendered, nothing is stored
GenerateSummary ==
    /\ view = "admin"
    /\ last' = Outcome("generateSummary", TRUE, "", <<>>, summaryRowCount)
    /\ UNCHANGED <<docs, currentUser, view, employeeTable, now, tz, fnArgs, fnOut>>

\* exportSummaryBtn click, src/script.js 507-509 (exportSummary 233-254): a
\* file is downloaded, or the alert of line 236 is shown
ExportSummary ==
    /\ view = "admin"
    /\ LET n == summaryRowCount
       IN  last' = IF n = 0
                   THEN Outcome("exportSummary", FALSE, "No summary data to export.", <<>>, 0)
                   ELSE Outcome("exportSummary", TRUE, "", <<>>, n)
    /\ UNCHANGED <<docs, currentUser, view, employeeTable, now, tz, fnArgs, fnOut>>

Next ==
    \/ Tick
    \/ \E i \in LoginInputs : Login(i[1], i[2], i[3])
    \/ Logout
    \/ PunchIn
    \/ PunchOut
    \/ \E i \in AddEmployeeInputs : AddEmployee(i[1], i[2], i[3], i[4], i[5])
    \/ \E idx \in employeeTable, c \in BOOLEAN : DeleteEmployee(idx, c)
    \/ \E i \in FewPayPeriodInputs : SavePayPeriod(i)

Spec == Init /\ [][Next]_vars

\* the same application in a browser whose local time is UTC: the offset
\* only enters the time strings and the pay period of a log entry
InitUTC == Init /\ tz = 0

SpecUTC == InitUTC /\ [][Next]_vars

----------------------------------------------------------------------------
(* Employees whose names are names of Object.prototype *)

\* values of the login form and of the new-employee form
NamesLoginInputs ==
    {<<AdminName, "admin", "admin">>, <<ProtoKey, "pw", "employee">>,
     <<ConstructorName, "pw", "employee">>}

NamesAddEmployeeInputs ==
    {<<ProtoKey, "pw", Rate20, T0900, T1700>>, <<ConstructorName, "pw", Rate20, T0900, T1700>>}

NextNames ==
    \/ Tick
    \/ \E i \in NamesLoginInputs : Login(i[1], i[2], i[3])
    \/ Logout
    \/ PunchIn
    \/ PunchOut
    \/ \E i \in NamesAddEmployeeInputs : AddEmployee(i[1], i[2], i[3], i[4], i[5])
    \/ \E idx \in employeeTable, c \in BOOLEAN : DeleteEmployee(idx, c)

SpecNames == InitUTC /\ [][NextNames]_vars

----------------------------------------------------------------------------
(* The application with the two summary buttons, in a browser whose local  *)
(* time is UTC                                                             *)

\* values of the login form: the administrator, the two employees, and a
\* wrong password
AppLoginInputs ==
    {<<AdminName, "admin", "admin">>, <<<<"b">>, "pw", "employee">>,
     <<<<"c">>, "pw", "employee">>, <<<<"b">>, "admin", "employee">>}

\* values of the new-employee form: the two employees, and a name that
\* trims to an existing one
AppAddEmployeeInputs ==
    {<<u, "pw", Rate20, T0900, T1700>> : u \in UsernameInputs \ {<<>>, AdminName}}

\* value of the pay-period field: " 1 ,15x"
AppPayPeriodInputs == {<<" ", "1", " ", ",", "1", "5", "x">>}

NextApp ==
    \/ Tick
    \/ \E i \in AppLoginInputs : Login(i[1], i[2], i[3])
    \/ Logout
    \/ PunchIn
    \/ PunchOut
    \/ \E i \in AppAddEmployeeInputs : AddEmployee(i[1], i[2], i[3], i[4], i[5])
    \/ \E idx \in employeeTable, c \in BOOLEAN : DeleteEmployee(idx, c)
    \/ \E i \in AppPayPeriodInputs : SavePayPeriod(i)
    \/ GenerateSummary
    \/ ExportSummary

SpecApp == InitUTC /\ [][NextApp]_vars

----------------------------------------------------------------------------
(* The pay-period settings on their own: the administrator logs in and     *)
(* saves any input of at most MaxInputParts parts                          *)

NextSettings ==
    \/ \E i \in LoginInputs : Login(i[1], i[2], i[3])
    \/ Logout
    \/ \E i \in PayPeriodInputs : SavePayPeriod(i)

SpecSettings == Init /\ [][NextSettings]_vars

----------------------------------------------------------------------------
(* getPayPeriodStart on its own: a Date, stored settings and an offset     *)

\* the days a stored startDays is made of in the function specifications
FnStartDays == {1, 15, 29, 30, 31}

\* stored settings: what savePayPeriod stores for one or two valid days
FnSettings ==
    {[startDays |-> sortNumeric(sd)] : sd \in UNION {[1..n -> FnStartDays] : n \in 1..2}}

\* Dates: 00:30Z and 23:30Z of every day of NumFnMonths months from 2023-12-01
FnFirstDay == DayNum(2023, 12, 1)

FnDates ==
    {(FnFirstDay + d) * 1440 + m :
        d \in 0..((newDate(2023, 11 + NumFnMonths, 1, 0) \div 1440) - FnFirstDay - 1),
        m \in {30, 1410}}

InitPP ==
    LET d == initDefaults(EmptyStore)
    IN  /\ accounts = d.accounts
        /\ paySettings \in FnSettings
        /\ logs = d.logs
        /\ currentPunch = d.currentPunch
        /\ raw = d.raw
        /\ SessionInit
        /\ now \in FnDates
        /\ tz \in TimeZones
        /\ fnArgs = <<"getPayPeriodStart">>
        /\ fnOut = NoCall

\* the call getPayPeriodStart(now) of line 411
CallGetPayPeriodStart ==
    /\ fnArgs = <<"getPayPeriodStart">>
    /\ fnOut = NoCall
    /\ fnOut' = <<getPayPeriodStart(now, StorageGet("paySettings", paySettings,
                                                     DefaultSettings), tz)>>
    /\ UNCHANGED <<docs, currentUser, view, employeeTable, now, tz, last, fnArgs>>

NextPP == CallGetPayPeriodStart

SpecPP == InitPP /\ [][NextPP]_vars

----------------------------------------------------------------------------
(* computeWorkedMinutes on its own *)

\* the time string of h hours m minutes, as an <input type="time"> and
\* toTimeString().slice(0, 5) write it
HHMM(h, m) == padStart2(String(h)) \o <<":">> \o padStart2(String(m))

\* the times of day the four arguments are drawn from
FnTimes ==
    {HHMM(0, 0), HHMM(6, 0), HHMM(8, 45), HHMM(9, 0), HHMM(9, 10), HHMM(17, 0),
     HHMM(17, 30), HHMM(22, 0), HHMM(23, 59)}

InitCW ==
    /\ AppInit
    /\ now = TimePoint(1)
    /\ tz = 0
    /\ fnArgs \in {<<"computeWorkedMinutes", ss, se, ai, ao>> :
                      ss \in FnTimes, se \in FnTimes, ai \in FnTimes, ao \in FnTimes}
    /\ fnOut = NoCall

\* the call computeWorkedMinutes(scheduledStart, scheduledEnd, timeInStr,
\* timeOutStr) of line 409
CallComputeWorkedMinutes ==
    /\ fnArgs # NoCall
    /\ fnArgs[1] = "computeWorkedMinutes"
    /\ fnOut = NoCall
    /\ fnOut' = <<computeWorkedMinutes(fnArgs[2], fnArgs[3], fnArgs[4], fnArgs[5])>>
    /\ UNCHANGED <<docs, currentUser, view, employeeTable, now, tz, last, fnArgs>>

NextCW == CallComputeWorkedMinutes

SpecCW == InitCW /\ [][NextCW]_vars

----------------------------------------------------------------------------
(* generateSummary on its own: a stored log list and a stored account list *)

\* the employees whose entries are in the log lists
SummaryUsers == {<<"b">>, <<"c">>, ConstructorName}

\* pay periods of the entries: 2024-02-15 and 2024-03-01
SummaryPeriods == {<<2024, 2, 15>>, <<2024, 3, 1>>}

\* minutesWorked of the entries: in 09:00 and out 09:01, in 09:10 and out
\* 17:30, of the shift 09:00-17:00
SummaryMinutes == {1, 470}

\* the log entries punch-outs on 2024-03-02 leave for these users
SummaryEntries ==
    {[username |-> u, date |-> <<2024, 3, 2>>,
      punchIn |-> IF mw = 1 THEN HHMM(9, 0) ELSE HHMM(9, 10),
      punchOut |-> IF mw = 1 THEN HHMM(9, 1) ELSE HHMM(17, 30),
      minutesWorked |-> mw, payPeriodStart |-> p] :
        u \in SummaryUsers, p \in SummaryPeriods, mw \in SummaryMinutes}

Employee(username, rate) ==
    [username |-> username, password |-> "pw", role |-> "employee", hourlyRate |-> rate,
     shiftStart |-> T0900, shiftEnd |-> T1700]

\* account lists: the seed admin alone (the employees' accounts are gone);
\* with b at 20.00; with b at 0.90, c at 0 and constructor at 20.00
SummaryAccounts ==
    LET admin == initDefaults(EmptyStore).accounts
    IN  {admin,
         admin \o <<Employee(<<"b">>, 2000)>>,
         admin \o <<Employee(<<"b">>, 90), Employee(<<"c">>, 0),
                    Employee(ConstructorName, 2000)>>}

InitSummary ==
    /\ accounts \in SummaryAccounts
    /\ paySettings = DefaultSettings
    /\ logs \in UNION {[1..n -> SummaryEntries] : n \in 0..MaxSummaryLogs}
    /\ currentPunch = EmptyMap
    /\ raw = [k \in StorageKeys |-> "ok"]
    /\ SessionInit
    /\ now = TimePoint(1)
    /\ tz = 0
    /\ fnArgs = <<"generateSummary">>
    /\ fnOut = NoCall

\* the call generateSummary() of lines 210 and 234
CallGenerateSummary ==
    /\ fnArgs = <<"generateSummary">>
    /\ fnOut = NoCall
    /\ \E tieUp \in BOOLEAN :
          fnOut' = <<generateSummary(StorageGet("logs", logs, <<>>),
                                     StorageGet("accounts", accounts, <<>>), tieUp)>>
    /\ UNCHANGED <<docs, currentUser, view, employeeTable, now, tz, last, fnArgs>>

NextSummary == CallGenerateSummary

SpecSummary == InitSummary /\ [][NextSummary]_vars

----------------------------------------------------------------------------
(* initDefaults on its own: the page is loaded over any stored state *)

\* what getItem and JSON.parse can find under a key
RawStates == {"ok", "missing", "corrupt"}

\* stored documents the application has written
StoredAccounts ==
    {initDefaults(EmptyStore).accounts,
     initDefaults(EmptyStore).accounts \o <<Employee(<<"b">>, 2000)>>}

StoredSettings == {[startDays |-> <<1, 15>>], [startDays |-> <<1>>], [startDays |-> <<10, 20>>]}

StoredLogs ==
    {<<>>,
     <<[username |-> <<"b">>, date |-> <<2024, 2, 29>>, punchIn |-> HHMM(9, 10),
        punchOut |-> HHMM(17, 30), minutesWorked |-> 470,
        payPeriodStart |-> <<2024, 2, 15>>]>>}

StoredPunches ==
    {EmptyMap, setPunch(EmptyMap, <<"b">>, [date |-> <<2024, 2, 29>>, punchIn |-> HHMM(9, 10)])}

\* a key that is missing or does not parse has no document
InitDefaults ==
    /\ raw \in [StorageKeys -> RawStates]
    /\ accounts \in IF raw["accounts"] = "ok" THEN StoredAccounts ELSE {EmptyStore.accounts}
    /\ paySettings \in IF raw["paySettings"] = "ok" THEN StoredSettings
                       ELSE {EmptyStore.paySettings}
    /\ logs \in IF raw["logs"] = "ok" THEN StoredLogs ELSE {EmptyStore.logs}
    /\ currentPunch \in IF raw["currentPunch"] = "ok" THEN StoredPunches
                        ELSE {EmptyStore.currentPunch}
    /\ currentUser = NoUser
    /\ view = "login"
    /\ employeeTable = {}
    /\ last = Outcome("closed", TRUE, "", <<>>, 0)
    /\ now = TimePoint(1)
    /\ tz = 0
    /\ fnArgs = NoCall
    /\ fnOut = NoCall

\* DOMContentLoaded, src/script.js 275-312: initDefaults() and a fresh
\* session; last.n counts the loads
PageLoad ==
    /\ last.n < MaxLoads
    /\ LET d == initDefaults([accounts |-> accounts, paySettings |-> paySettings,
                              logs |-> logs, currentPunch |-> currentPunch, raw |-> raw])
       IN  /\ accounts' = d.accounts
           /\ paySettings' = d.paySettings
           /\ logs' = d.logs
           /\ currentPunch' = d.currentPunch
           /\ raw' = d.raw
    /\ currentUser' = NoUser
    /\ view' = "login"
    /\ employeeTable' = {}
    /\ last' = Outcome("load", TRUE, "", <<>>, last.n + 1)
    /\ UNCHANGED <<now, tz, fnArgs, fnOut>>

NextDefaults == PageLoad

SpecDefaults == InitDefaults /\ [][NextDefaults]_vars

----------------------------------------------------------------------------
(* timeToMinutes and minutesToTime on their own *)

\* every time string HH:MM with HH in 00..23 and MM in 00..59
ValidTimeStrings ==
    {<<Digits[a + 1], Digits[b + 1], ":", Digits[c + 1], Digits[d + 1]>> :
        a \in 0..2, b \in 0..9, c \in 0..5, d \in 0..9} \
    {<<"2", Digits[b + 1], ":", Digits[c + 1], Digits[d + 1]>> :
        b \in 4..9, c \in 0..5, d \in 0..9}

\* every minute of the day
MinutesOfDay == 0..1439

InitTime ==
    /\ AppInit
    /\ now = TimePoint(1)
    /\ tz = 0
    /\ fnArgs \in ({<<"timeString", t>> : t \in ValidTimeStrings}
                   \cup {<<"minutes", m>> : m \in MinutesOfDay})
    /\ fnOut = NoCall

\* minutesToTime(timeToMinutes(t)) for a time string, and
\* timeToMinutes(minutesToTime(m)) for a number of minutes
CallRoundTrip ==
    /\ fnArgs # NoCall
    /\ fnArgs[1] \in {"timeString", "minutes"}
    /\ fnOut = NoCall
    /\ fnOut' = IF fnArgs[1] = "timeString"
                THEN <<minutesToTime(timeToMinutes(fnArgs[2])[1])>>
                ELSE <<timeToMinutes(minutesToTime(fnArgs[2]))>>
    /\ UNCHANGED <<docs, currentUser, view, employeeTable, now, tz, last, fnArgs>>

NextTime == CallRoundTrip

SpecTime == InitTime /\ [][NextTime]_vars

----------------------------------------------------------------------------
(* Properties *)

persisted == <<accounts, paySettings, logs, currentPunch>>

usernames(accs) == {accs[i].username : i \in 1..Len(accs)}

\* the account of username u in the account list
accountOf(accs, u) == accs[CHOOSE i \in 1..Len(accs) : accs[i].username = u]

\* the logged-in employee has no open punch, or one dated another day than
\* the day of the clock
NoPunchToday ==
    LET u == currentUser.username
    IN  u \notin DOMAIN currentPunch \/ currentPunch[u].date # toISODate(now)

\* C1: a punch-out by a logged-in user whose open punch is absent or dated
\* another day than today is rejected: nothing is appended to the log list,
\* and the open-punch map (a stale entry included) and the other persisted
\* documents stay as they were.
C1_StalePunchOutRejected ==
    [][(last'.op = "punchOut" /\ NoPunchToday)
          => (~last'.ok /\ UNCHANGED persisted)]_vars

\* a punch-out was just rejected and the user's stale open punch is still there
C1_Witness ==
    /\ last.op = "punchOut"
    /\ ~last.ok
    /\ currentUser.username \in DOMAIN currentPunch
    /\ currentPunch[currentUser.username].date # toISODate(now)

\* C3: deleting the employee account u removes from the log list every
\* entry of u and no other entry (the other entries stay, in their order),
\* and the account list loses exactly u's account.
C3_DeleteCascades ==
    [][(last'.op = "deleteEmployee" /\ last'.ok) =>
          \E idx \in 1..Len(accounts) :
             LET u == accounts[idx].username
                 others == {i \in 1..Len(logs) : logs[i].username # u}
             IN  /\ last'.arg = u
                 /\ accounts[idx].role = "employee"
                 /\ Len(accounts') = Len(accounts) - 1
                 /\ \A i \in 1..Len(accounts') :
                       accounts'[i] = accounts[IF i < idx THEN i ELSE i + 1]
                 /\ \A i \in 1..Len(logs') : logs'[i].username # u
                 /\ Len(logs') = Cardinality(others)
                 /\ \A i \in others :
                       logs'[Cardinality({j \in others : j <= i})] = logs[i]]_vars

\* an employee with log entries was just deleted and the entries of another
\* user are still in the log list
C3_Witness ==
    /\ last.op = "deleteEmployee"
    /\ last.ok
    /\ last.n >= 1
    /\ logs # <<>>

\* C10: no two accounts have the same username, and an add-employee whose
\* username is already in the account list (the seed admin's included) is
\* rejected and leaves the account list as it was.
C10_UniqueUsernames ==
    /\ [](\A i, j \in 1..Len(accounts) :
             accounts[i].username = accounts[j].username => i = j)
    /\ [][(last'.op = "addEmployee" /\ last'.arg \in usernames(accounts))
             => (~last'.ok /\ accounts' = accounts)]_vars

\* an add-employee with the seed admin's username was just rejected
C10_Witness ==
    /\ last.op = "addEmployee"
    /\ last.msg = "Username already exists."
    /\ last.arg = AdminName
    /\ Len(accounts) >= 2

----------------------------------------------------------------------------
(* The pay period of a calendar date, as the specification words it *)

\* the date <<y, m, d>> is a date of the calendar
IsCalendarDate(date) ==
    /\ date[2] \in 1..12
    /\ date[3] \in 1..DaysInMonth(date[1], date[2])

\* date a is not after date b (the order of the strings YYYY-MM-DD)
DateLeq(a, b) ==
    \/ a[1] < b[1]
    \/ a[1] = b[1] /\ a[2] < b[2]
    \/ a[1] = b[1] /\ a[2] = b[2] /\ a[3] <= b[3]

SetMax(S) == CHOOSE x \in S : \A y \in S : y <= x

\* the most recent start day on or before the date: the largest start day
\* <= the day of the month, in the date's month; when there is none, the
\* largest start day in the month before, clamped to that month's last day
PeriodStartOf(date, startDays) ==
    LET days == {startDays[i] : i \in 1..Len(startDays)}
        y == date[1]
        m == date[2]
        d == date[3]
        onOrBefore == {s \in days : s <= d}
        py == IF m = 1 THEN y - 1 ELSE y
        pm == IF m = 1 THEN 12 ELSE m - 1
    IN  IF onOrBefore # {}
        THEN <<y, m, Min(SetMax(onOrBefore), DaysInMonth(y, m))>>
        ELSE <<py, pm, Min(SetMax(days), DaysInMonth(py, pm))>>

\* C2: a successful punch-out by user u removes exactly u's entry from the
\* open-punch map, leaves the other open punches alone, and appends one log
\* entry: username u, date today, punchIn the time of the consumed open
\* punch, punchOut the current time, minutesWorked computed from u's shift,
\* payPeriodStart the pay period of today under the current settings; the
\* earlier entries, the accounts and the settings are unchanged.
C2_PunchOutEffect ==
    [][(last'.op = "punchOut" /\ last'.ok) =>
          LET u == currentUser.username
              today == toISODate(now)
              acc == accountOf(accounts, u)
              e == logs'[Len(logs')]
          IN  /\ u \in DOMAIN currentPunch
              /\ currentPunch[u].date = today
              /\ DOMAIN currentPunch' = (DOMAIN currentPunch) \ {u}
              /\ \A k \in DOMAIN currentPunch' : currentPunch'[k] = currentPunch[k]
              /\ logs' = Append(logs, e)
              /\ e.username = u
              /\ e.date = today
              /\ e.punchIn = currentPunch[u].punchIn
              /\ e.punchOut = toTimeHHMM(now, tz)
              /\ e.minutesWorked =
                    computeWorkedMinutes(acc.shiftStart, acc.shiftEnd, e.punchIn, e.punchOut)
              /\ e.payPeriodStart = PeriodStartOf(today, paySettings.startDays)
              /\ UNCHANGED <<accounts, paySettings>>]_vars

\* the effect of a successful punch-out as the handler produces it: C2 with
\* the pay period computed by getPayPeriodStart from the Date of the punch
\* rather than from the entry's date
PunchOutEffectAsCoded ==
    [][(last'.op = "punchOut" /\ last'.ok) =>
          LET u == currentUser.username
              today == toISODate(now)
              acc == accountOf(accounts, u)
              e == logs'[Len(logs')]
          IN  /\ u \in DOMAIN currentPunch
              /\ currentPunch[u].date = today
              /\ DOMAIN currentPunch' = (DOMAIN currentPunch) \ {u}
              /\ \A k \in DOMAIN currentPunch' : currentPunch'[k] = currentPunch[k]
              /\ logs' = Append(logs, e)
              /\ e = [username |-> u, date |-> today,
                      punchIn |-> currentPunch[u].punchIn,
                      punchOut |-> toTimeHHMM(now, tz),
                      minutesWorked |-> computeWorkedMinutes(acc.shiftStart, acc.shiftEnd,
                                                             e.punchIn, e.punchOut),
                      payPeriodStart |-> getPayPeriodStart(now, paySettings, tz)]
              /\ UNCHANGED <<accounts, paySettings>>]_vars

\* C4: every log entry's payPeriodStart is a calendar date, is the most
\* recent configured start day on or before the entry's date (previous
\* month fallback, short-month clamping) under the settings in force at the
\* punch-out that created it, whatever the instant and the UTC offset, and
\* is never later than the entry's date.
C4_PayPeriodOfEntryDate ==
    /\ \A i \in 1..Len(logs) :
          /\ IsCalendarDate(logs[i].payPeriodStart)
          /\ DateLeq(logs[i].payPeriodStart, logs[i].date)
    /\ (last.op = "punchOut" /\ last.ok) =>
          logs[Len(logs)].payPeriodStart =
             PeriodStartOf(logs[Len(logs)].date, paySettings.startDays)

\* what does hold of the entries: a calendar date not after the entry's date
PayPeriodNotAfterEntryDate ==
    \A i \in 1..Len(logs) :
       /\ IsCalendarDate(logs[i].payPeriodStart)
       /\ DateLeq(logs[i].payPeriodStart, logs[i].date)

\* C5: for every date d and every non-empty startDays within 1..31,
\* getPayPeriodStart(d) is the date of the largest start day <= d's day of
\* the month in d's month, or else of the largest start day in the month
\* before, clamped to the month's length: a calendar date not after d.
C5_GetPayPeriodStart ==
    fnOut # NoCall =>
       LET d == LocalCivil(now, tz)
       IN  /\ fnOut[1] = PeriodStartOf(d, paySettings.startDays)
           /\ IsCalendarDate(fnOut[1])
           /\ DateLeq(fnOut[1], d)

\* the same in a browser whose offset is not east of UTC
GetPayPeriodStartWestOfUTC ==
    (fnOut # NoCall /\ tz <= 0) =>
       LET d == LocalCivil(now, tz)
       IN  /\ fnOut[1] = PeriodStartOf(d, paySettings.startDays)
           /\ IsCalendarDate(fnOut[1])
           /\ DateLeq(fnOut[1], d)

----------------------------------------------------------------------------
(* computeWorkedMinutes *)

\* the minute offsets of the arguments of the call in fnArgs
ArgSS == timeToMinutes(fnArgs[2])[1]

ArgSE == timeToMinutes(fnArgs[3])[1]

ArgAI == timeToMinutes(fnArgs[4])[1]

ArgAO == timeToMinutes(fnArgs[5])[1]

\* C6: for all ss, se, ai, ao the result of computeWorkedMinutes is never
\* negative, is exactly se - ss when ai = ss and ao = se, and never exceeds
\* se - ss however late ao is.
C6_WorkedMinutesRange ==
    fnOut # NoCall =>
       /\ fnOut[1] >= 0
       /\ (ArgAI = ArgSS /\ ArgAO = ArgSE) => fnOut[1] = ArgSE - ArgSS
       /\ fnOut[1] <= ArgSE - ArgSS

\* C6 as amended: the result is never negative; when se >= ss it is exactly
\* se - ss for ai = ss and ao = se and never exceeds se - ss; when se < ss
\* (a shift that ends before it starts) it is 0.
C6_WorkedMinutesRangeAmended ==
    fnOut # NoCall =>
       /\ fnOut[1] >= 0
       /\ ArgSE >= ArgSS =>
             /\ (ArgAI = ArgSS /\ ArgAO = ArgSE) => fnOut[1] = ArgSE - ArgSS
             /\ fnOut[1] <= ArgSE - ArgSS
       /\ ArgSE < ArgSS => fnOut[1] = 0

\* on time in and out of the shift 09:00-17:00: 480 minutes
C6_Witness ==
    /\ fnArgs = <<"computeWorkedMinutes", HHMM(9, 0), HHMM(17, 0), HHMM(9, 0), HHMM(17, 0)>>
    /\ fnOut = <<480>>

\* the consequence of C6 for the log list
LogMinutesNonNegative == \A i \in 1..Len(logs) : logs[i].minutesWorked >= 0

\* the result for an on-time punch-in with the other arguments of the call
OnTimeResult == computeWorkedMinutes(fnArgs[2], fnArgs[3], fnArgs[2], fnArgs[5])

\* C7: for fixed ss, se and ao, when ai > ss the result is exactly ai - ss
\* minutes less than the result for ai = ss, and for ai <= ss it equals that
\* result.
C7_LateDeduction ==
    fnOut # NoCall =>
       /\ ArgAI > ArgSS => fnOut[1] = OnTimeResult - (ArgAI - ArgSS)
       /\ ArgAI <= ArgSS => fnOut[1] = OnTimeResult

\* C7 as amended: when ai > ss the result is the on-time result less
\* ai - ss minutes, but not less than 0; for ai <= ss it equals the on-time
\* result.
C7_LateDeductionAmended ==
    fnOut # NoCall =>
       /\ ArgAI > ArgSS => fnOut[1] = Max(0, OnTimeResult - (ArgAI - ArgSS))
       /\ ArgAI <= ArgSS => fnOut[1] = OnTimeResult

\* shift 09:00-17:00, in 09:10, out 17:30: 470 minutes, 10 less than on time
C7_Witness ==
    /\ fnArgs = <<"computeWorkedMinutes", HHMM(9, 0), HHMM(17, 0), HHMM(9, 10), HHMM(17, 30)>>
    /\ fnOut = <<470>>
    /\ OnTimeResult = 480

----------------------------------------------------------------------------
(* The pay-period settings *)

\* the part is a day number: digits only, between 1 and 31
IsDayNumber(part) ==
    LET t == trim(part)
    IN  /\ t # <<>>
        /\ \A i \in 1..Len(t) : IsDigit(t[i])
        /\ DigitsValue(t) >= 1
        /\ DigitsValue(t) <= 31

\* the input has a part that is not a number or lies outside 1..31
HasInvalidPart(input) ==
    LET parts == split(trim(input), ",")
    IN  \E i \in 1..Len(parts) : ~IsDayNumber(parts[i])

\* C8: a save-pay-settings whose input has a non-numeric or out-of-range day
\* is aborted and leaves the stored settings as they were; and every
\* rejected action changes none of the four persisted documents.
C8_InvalidDaysRejected ==
    [][/\ (last'.op = "savePayPeriod" /\ HasInvalidPart(last'.arg))
             => (~last'.ok /\ paySettings' = paySettings)
       /\ ~last'.ok => UNCHANGED persisted]_vars

\* the second half of C8 on its own: a rejected action changes no document
RejectedActionsChangeNothing == [][~last'.ok => UNCHANGED persisted]_vars

\* C9: the stored startDays is always a non-empty collection of distinct
\* integers within 1..31.
C9_StartDaysDistinctInRange ==
    LET sd == paySettings.startDays
    IN  /\ Len(sd) >= 1
        /\ \A i \in 1..Len(sd) : sd[i] \in 1..31
        /\ \A i, j \in 1..Len(sd) : sd[i] = sd[j] => i = j

\* what does hold: non-empty, ascending, within 1..31
StartDaysNonEmptyInRange ==
    LET sd == paySettings.startDays
    IN  /\ Len(sd) >= 1
        /\ \A i \in 1..Len(sd) : sd[i] \in 1..31
        /\ \A i \in 1..(Len(sd) - 1) : sd[i] <= sd[i + 1]

----------------------------------------------------------------------------
(* The log list *)

\* the positions of the entries of ls that do not belong to user u
survivors(ls, u) == {i \in 1..Len(ls) : ls[i].username # u}

\* C11: the log list changes in two ways only. A successful punch-out
\* appends one entry and leaves the earlier entries as they were; a confirmed
\* delete of the account u removes the entries of u and keeps the others
\* unmodified and in their order. Every other step (punch-in, rejected
\* punch-out, add-employee, save-pay-settings, login, logout, generate and
\* export summary, the clock) leaves the log list unchanged.
C11_LogEntriesImmutable ==
    [][\/ logs' = logs
       \/ /\ last'.op = "punchOut"
          /\ last'.ok
          /\ Len(logs') = Len(logs) + 1
          /\ SubSeq(logs', 1, Len(logs)) = logs
       \/ /\ last'.op = "deleteEmployee"
          /\ last'.ok
          /\ last'.arg \in usernames(accounts)
          /\ last'.arg \notin usernames(accounts')
          /\ Len(logs') = Cardinality(survivors(logs, last'.arg))
          /\ \A i \in survivors(logs, last'.arg) :
                logs'[Cardinality({j \in survivors(logs, last'.arg) : j <= i})] = logs[i]
      ]_vars

\* the summary was just exported with two entries in the log list
C11_Witness ==
    /\ last.op = "exportSummary"
    /\ last.ok
    /\ Len(logs) >= 2

----------------------------------------------------------------------------
(* The summary *)

\* the sum of minutesWorked over the entries of ls of the period and the user
RECURSIVE SumMinutes(_, _, _)
SumMinutes(ls, period, user) ==
    IF ls = <<>> THEN 0
    ELSE (IF Head(ls).payPeriodStart = period /\ Head(ls).username = user
          THEN Head(ls).minutesWorked ELSE 0)
         + SumMinutes(Tail(ls), period, user)

\* the hourlyRate (hundredths) of the account of user, 0 when there is no
\* such account or it has no rate
RateOf(accs, user) ==
    IF \E i \in 1..Len(accs) : accs[i].username = user /\ "hourlyRate" \in DOMAIN accs[i]
    THEN accountOf(accs, user).hourlyRate
    ELSE 0

\* h hundredths is num / den rounded to the nearest integer
IsRounded(h, num, den) == 2 * (h * den - num) <= den /\ 2 * (num - h * den) <= den

\* the row's totalHours is the total minutes of its period and user divided
\* by 60, and its totalPay is that number of hours times the rate, both
\* rounded to 2 decimals
RowTotalsRight(row) ==
    LET total == SumMinutes(logs, row.period, row.user)
    IN  /\ ~isNaN(row.totalHours)
        /\ IsRounded(row.totalHours[1], 100 * total, 60)
        /\ ~isNaN(row.totalPay)
        /\ IsRounded(row.totalPay[1], total * RateOf(accounts, row.user), 60)

\* C12: for every log list and account list, each row of generateSummary
\* has totalHours equal to the sum of minutesWorked over the log entries of
\* the row's period and user, divided by 60 and rounded to 2 decimals, and
\* totalPay equal to those hours times the account's hourlyRate (0 when the
\* account is absent or has no rate), rounded to 2 decimals.
C12_SummaryTotals ==
    fnOut # NoCall => \A i \in 1..Len(fnOut[1]) : RowTotalsRight(fnOut[1][i])

\* what does hold: the totals of the rows of users whose name is not a name
\* of Object.prototype
SummaryTotalsOfOrdinaryNames ==
    fnOut # NoCall =>
       \A i \in 1..Len(fnOut[1]) :
          fnOut[1][i].user \notin ObjectPrototypeKeys => RowTotalsRight(fnOut[1][i])

\* the (payPeriodStart, username) pairs of a log list and of a list of rows
LogPairs(ls) == {<<ls[i].payPeriodStart, ls[i].username>> : i \in 1..Len(ls)}

RowPairs(rows) == {<<rows[i].period, rows[i].user>> : i \in 1..Len(rows)}

\* C13: generateSummary returns one row for each distinct (payPeriodStart,
\* username) pair of the log list and no other row, no pair has two rows,
\* the rows are in ascending order of period, and every log entry belongs to
\* exactly one row.
C13_OneRowPerPairAscending ==
    fnOut # NoCall =>
       LET rows == fnOut[1]
       IN  /\ RowPairs(rows) = LogPairs(logs)
           /\ \A i, j \in 1..Len(rows) :
                 (rows[i].period = rows[j].period /\ rows[i].user = rows[j].user) => i = j
           /\ \A i, j \in 1..Len(rows) : i < j => ~DateBefore(rows[j].period, rows[i].period)
           /\ \A k \in 1..Len(logs) :
                 Cardinality({i \in 1..Len(rows) :
                                 /\ rows[i].period = logs[k].payPeriodStart
                                 /\ rows[i].user = logs[k].username}) = 1

\* three entries, the first of the later period and two of one pair, gave
\* two rows with the earlier period first
C13_Witness ==
    /\ fnOut # NoCall
    /\ Len(logs) = 3
    /\ logs[1].payPeriodStart = <<2024, 3, 1>>
    /\ Len(fnOut[1]) = 2
    /\ fnOut[1][1].period = <<2024, 2, 15>>

----------------------------------------------------------------------------
(* Punches *)

\* C14: a punch-in by the logged-in user u is never rejected: whatever u's
\* open punch was (none, of another day, of today), afterwards u's open
\* punch is {date: today, punchIn: the current time}, the open punches of
\* the other users are as they were, and the log list is unchanged. (The map
\* is keyed by username, so it holds at most one entry per user.)
C14_PunchInOverwrites ==
    [][last'.op = "punchIn" =>
          LET u == currentUser.username
          IN  /\ last'.ok
              /\ DOMAIN currentPunch' = (DOMAIN currentPunch) \cup {u}
              /\ currentPunch'[u] = [date |-> toISODate(now), punchIn |-> toTimeHHMM(now, tz)]
              /\ \A k \in (DOMAIN currentPunch) \ {u} : currentPunch'[k] = currentPunch[k]
              /\ logs' = logs]_vars

\* what does hold: the same for every user not named "__proto__"
PunchInOfOtherNames ==
    [][(last'.op = "punchIn" /\ currentUser.username # ProtoKey) =>
          LET u == currentUser.username
          IN  /\ last'.ok
              /\ DOMAIN currentPunch' = (DOMAIN currentPunch) \cup {u}
              /\ currentPunch'[u] = [date |-> toISODate(now), punchIn |-> toTimeHHMM(now, tz)]
              /\ \A k \in (DOMAIN currentPunch) \ {u} : currentPunch'[k] = currentPunch[k]
              /\ logs' = logs]_vars

----------------------------------------------------------------------------
(* initDefaults *)

\* C15: a page load creates each of the four baseline records (accounts =
\* the one admin account, paySettings = {startDays: [1, 15]}, logs = the
\* empty list, currentPunch = the empty map) only when the record is missing
\* or does not parse, leaves every record that is present and readable
\* unchanged, and a second load changes none of them.
C15_InitDefaults ==
    [][last'.op = "load" =>
          /\ accounts' = IF raw["accounts"] = "ok" THEN accounts
                         ELSE <<[username |-> AdminName, password |-> "admin",
                                 role |-> "admin"]>>
          /\ paySettings' = IF raw["paySettings"] = "ok" THEN paySettings
                            ELSE [startDays |-> <<1, 15>>]
          /\ logs' = IF raw["logs"] = "ok" THEN logs ELSE <<>>
          /\ currentPunch' = IF raw["currentPunch"] = "ok" THEN currentPunch ELSE EmptyMap
          /\ \A k \in StorageKeys : raw'[k] = "ok"
          /\ last.op = "load" => UNCHANGED docs]_vars

\* the page was loaded twice over a store that had a log entry and an open
\* punch but no accounts and no settings
C15_Witness ==
    /\ last.op = "load"
    /\ last.n = 2
    /\ logs # <<>>
    /\ currentPunch # EmptyMap
    /\ Len(accounts) = 1
    /\ paySettings = [startDays |-> <<1, 15>>]

----------------------------------------------------------------------------
(* Time strings *)

\* C16: for every time string t = "HH:MM" with HH in 00..23 and MM in
\* 00..59, minutesToTime(timeToMinutes(t)) is t, and for every number of
\* minutes m in 0..1439, timeToMinutes(minutesToTime(m)) is m.
C16_TimeRoundTrip ==
    fnOut # NoCall =>
       /\ fnArgs[1] = "timeString" => fnOut[1] = fnArgs[2]
       /\ fnArgs[1] = "minutes" => fnOut[1] = <<fnArgs[2]>>

\* "09:05" went to 545 minutes and back to "09:05"
C16_Witness ==
    /\ fnArgs = <<"timeString", <<"0", "9", ":", "0", "5">>>>
    /\ fnOut = <<<<"0", "9", ":", "0", "5">>>>
    /\ timeToMinutes(fnArgs[2]) = <<545>>

\* C17: every username that is a key of the open-punch map is the username
\* of an account; in particular an account that was just created has no
\* open punch (one left by a deleted account of the same name), so it cannot
\* punch out before it has punched in.
C17_OpenPunchesOfAccounts ==
    /\ [](DOMAIN currentPunch \subseteq usernames(accounts))
    /\ [][(last'.op = "addEmployee" /\ last'.ok) => last'.arg \notin DOMAIN currentPunch']_vars

\* C18: every log entry has punchIn <= punchOut as times of day, whatever
\* the instants of the two punches and the browser's UTC offset.
C18_PunchInBeforePunchOut ==
    \A i \in 1..Len(logs) :
       timeToMinutes(logs[i].punchIn)[1] <= timeToMinutes(logs[i].punchOut)[1]

----------------------------------------------------------------------------
(* The seed admin *)

IsSeedAdmin(acc) == acc.username = AdminName /\ acc.role = "admin"

\* C19: the account list always contains the seed account admin with role
\* admin and no other admin account: a delete removes only an account with
\* role employee and an add-employee creates only an account with role
\* employee.
C19_SeedAdminStays ==
    /\ [](Cardinality({i \in 1..Len(accounts) : accounts[i].role = "admin"}) = 1)
    /\ [](\E i \in 1..Len(accounts) : IsSeedAdmin(accounts[i]))
    /\ [][(last'.op = "deleteEmployee" /\ last'.ok) =>
             \E idx \in 1..Len(accounts) :
                /\ accounts[idx].role = "employee"
                /\ accounts' = splice1(accounts, idx)]_vars
    /\ [][(last'.op = "addEmployee" /\ last'.ok) =>
             /\ Len(accounts') = Len(accounts) + 1
             /\ SubSeq(accounts', 1, Len(accounts)) = accounts
             /\ accounts'[Len(accounts')].role = "employee"]_vars

\* the last employee was just deleted and the seed admin is the one account
C19_Witness ==
    /\ last.op = "deleteEmployee"
    /\ last.ok
    /\ Len(accounts) = 1
    /\ IsSeedAdmin(accounts[1])

====
